---- MODULE Spec2Model ----
(***************************************************************************)
(* Conversation context manager, metrics logger and chat session of        *)
(* chatgbt.  Message contents are real strings: token estimation,          *)
(* keyword matching and summary formatting are computed on them as the Go  *)
(* code computes them.                                                     *)
(***************************************************************************)
EXTENDS Integers, Sequences, FiniteSets, TLC

VARIABLES cm, Messages, SystemPrompt, session, last, returnedTokens, budgetCfg, logFile,
          web, env, sm

vars == <<cm, Messages, SystemPrompt, session, last, returnedTokens, budgetCfg, logFile, web,
          env, sm>>

(***************************************************************************)
(* Bounds of the model.                                                    *)
(***************************************************************************)
MaxMessages == 4

MaxKeepRecent == 1

TightMaxTokens == 30

MaxTurns == 3

TightSessionLimit == 12

(***************************************************************************)
(* Program constants.                                                      *)
(***************************************************************************)
DefaultMaxTokens == 6000

HardMessageLimit == 1000

TokenOverhead == 20

CharsPerToken == 4

RoleSystem == "system"

RoleUser == "user"

RoleAssistant == "assistant"

DefaultSystemPrompt == "You are a helpful assistant."

SummaryPrefix == "Previous conversation summary: "

(***************************************************************************)
(* Go string functions.                                                    *)
(***************************************************************************)
UpperChars == "ABCDEFGHIJKLMNOPQRSTUVWXYZ"

LowerChars == "abcdefghijklmnopqrstuvwxyz"

DigitChars == "0123456789"

CharAt(s, i) == SubSeq(s, i, i)

ToLowerChar(c) ==
  IF \E i \in 1..Len(UpperChars) : CharAt(UpperChars, i) = c
  THEN CharAt(LowerChars, CHOOSE i \in 1..Len(UpperChars) : CharAt(UpperChars, i) = c)
  ELSE c

RECURSIVE ToLower(_)
ToLower(s) ==
  IF s = "" THEN "" ELSE ToLowerChar(CharAt(s, 1)) \o ToLower(SubSeq(s, 2, Len(s)))

Contains(s, substr) ==
  \E i \in 1..(Len(s) - Len(substr) + 1) : SubSeq(s, i, i + Len(substr) - 1) = substr

HasPrefix(s, prefix) ==
  Len(s) >= Len(prefix) /\ SubSeq(s, 1, Len(prefix)) = prefix

RECURSIVE Itoa(_)
Itoa(n) ==
  IF n < 10 THEN CharAt(DigitChars, n + 1)
  ELSE Itoa(n \div 10) \o CharAt(DigitChars, (n % 10) + 1)

RECURSIVE Join(_, _)
Join(elems, sep) ==
  IF Len(elems) = 0 THEN ""
  ELSE IF Len(elems) = 1 THEN elems[1]
  ELSE elems[1] \o sep \o Join(Tail(elems), sep)

contains(slice, item) == \E i \in 1..Len(slice) : slice[i] = item

(***************************************************************************)
(* backend.Message                                                         *)
(***************************************************************************)
Message(role, content) == [Role |-> role, Content |-> content]

ZeroMessage == Message("", "")

(***************************************************************************)
(* ContextManager                                                          *)
(***************************************************************************)
NewContextManager(maxTokens, keepRecent, summaryEnabled) ==
  [maxTokens |-> maxTokens, keepRecent |-> keepRecent, summaryEnabled |-> summaryEnabled]

\* The sum is split in halves so that a history of a thousand messages is
\* summed without a thousand nested evaluations.
RECURSIVE totalChars(_)
totalChars(messages) ==
  IF Len(messages) = 0 THEN 0
  ELSE IF Len(messages) = 1
  THEN Len(messages[1].Role) + Len(messages[1].Content) + TokenOverhead
  ELSE LET half == Len(messages) \div 2
       IN totalChars(SubSeq(messages, 1, half))
          + totalChars(SubSeq(messages, half + 1, Len(messages)))

EstimateTokens_roundUp(messages) ==
  (totalChars(messages) + CharsPerToken - 1) \div CharsPerToken

EstimateTokens(messages) == totalChars(messages) \div CharsPerToken

ShouldPrune_orEqual(c, messages) == EstimateTokens(messages) >= c.maxTokens

ShouldPrune(c, messages) == EstimateTokens(messages) > c.maxTokens

addTopic_noDedup(topics, matched, tag) ==
  IF matched THEN Append(topics, tag) ELSE topics

addTopic(topics, matched, tag) ==
  IF matched /\ ~contains(topics, tag) THEN Append(topics, tag) ELSE topics

topicsOfUser(topics, content) ==
  LET t1 == addTopic(topics,
                     Contains(content, "code") \/ Contains(content, "debug")
                       \/ Contains(content, "error"),
                     "code/debugging")
      t2 == addTopic(t1,
                     Contains(content, "explain") \/ Contains(content, "how")
                       \/ Contains(content, "what"),
                     "explanations")
  IN addTopic(t2,
              Contains(content, "write") \/ Contains(content, "create")
                \/ Contains(content, "generate"),
              "content creation")

RECURSIVE summaryScan(_)
summaryScan(messages) ==
  IF messages = <<>> THEN [topics |-> <<>>, userQuestions |-> 0]
  ELSE LET prev == summaryScan(SubSeq(messages, 1, Len(messages) - 1))
           msg  == messages[Len(messages)]
       IN IF msg.Role = RoleUser
          THEN [topics |-> topicsOfUser(prev.topics, ToLower(msg.Content)),
                userQuestions |-> prev.userQuestions + 1]
          ELSE prev

createSummary(messages) ==
  IF Len(messages) = 0 THEN ""
  ELSE LET scan == summaryScan(messages)
       IN IF Len(scan.topics) = 0
          THEN "General conversation with " \o Itoa(scan.userQuestions) \o " exchanges"
          ELSE "Discussed " \o Join(scan.topics, ", ") \o " across "
               \o Itoa(scan.userQuestions) \o " exchanges"

withinLimit_strict(c, currentTokens) == currentTokens < c.maxTokens

withinLimit_ignored(c, currentTokens) == FALSE

withinLimit(c, currentTokens) == currentTokens <= c.maxTokens

hasLeadingSystem(messages) == Len(messages) > 0 /\ messages[1].Role = RoleSystem

notEnoughHistory_strict(c, userMessages) == Len(userMessages) < c.keepRecent * 2

notEnoughHistory(c, userMessages) == Len(userMessages) <= c.keepRecent * 2

recentStartOf_offByOne(c, userMessages) ==
  LET rs == Len(userMessages) - (c.keepRecent * 2) + 1 IN IF rs < 0 THEN 0 ELSE rs

recentStartOf(c, userMessages) ==
  LET rs == Len(userMessages) - (c.keepRecent * 2) IN IF rs < 0 THEN 0 ELSE rs

PruneContext(c, messages, currentTokens) ==
  IF withinLimit(c, currentTokens) THEN [messages |-> messages, pruned |-> FALSE]
  ELSE
    LET systemMessage == IF hasLeadingSystem(messages) THEN messages[1] ELSE ZeroMessage
        startIdx      == IF hasLeadingSystem(messages) THEN 1 ELSE 0
        userMessages  == SubSeq(messages, startIdx + 1, Len(messages))
    IN IF notEnoughHistory(c, userMessages) THEN [messages |-> messages, pruned |-> FALSE]
       ELSE
         LET recentStart == recentStartOf(c, userMessages)
             withSystem  == IF systemMessage.Content # "" THEN <<systemMessage>> ELSE <<>>
             summaryContent == createSummary(SubSeq(userMessages, 1, recentStart))
             withSummary ==
               IF c.summaryEnabled /\ recentStart > 0 /\ summaryContent # ""
               THEN Append(withSystem, Message(RoleSystem, SummaryPrefix \o summaryContent))
               ELSE withSystem
         IN [messages |-> withSummary \o SubSeq(userMessages, recentStart + 1, Len(userMessages)),
             pruned   |-> TRUE]

countRole(messages, role) ==
  Cardinality({i \in 1..Len(messages) : messages[i].Role = role})

\* UtilizationPct is the float estimatedTokens / maxTokens * 100, kept as the
\* pair of its numerator and denominator.
GetContextStats(c, messages) ==
  [TotalMessages     |-> Len(messages),
   UserMessages      |-> countRole(messages, RoleUser),
   AssistantMessages |-> countRole(messages, RoleAssistant),
   SystemMessages    |-> countRole(messages, RoleSystem),
   EstimatedTokens   |-> EstimateTokens(messages),
   TokenLimit        |-> c.maxTokens,
   UtilizationPct    |-> [num |-> EstimateTokens(messages) * 100, den |-> c.maxTokens],
   ShouldPrune       |-> EstimateTokens(messages) > c.maxTokens]

(***************************************************************************)
(* ClassifyPrompt, getErrorType                                            *)
(***************************************************************************)
containsAny(s, keywords) == \E k \in keywords : Contains(s, k)

CodeHelpKeywords ==
  {"code", "debug", "programming", "function", "variable", "syntax", "compile",
   "error", "algorithm", "script"}

ExplanationKeywords ==
  {"explain", "how", "what", "why", "define", "describe", "clarify", "understand",
   "meaning", "difference"}

CreativeKeywords ==
  {"write", "create", "generate", "compose", "draft", "make", "build", "design",
   "story", "poem"}

AnalysisKeywords ==
  {"analyze", "review", "compare", "evaluate", "assess", "critique", "examine", "study"}

ProblemSolvingKeywords ==
  {"solve", "calculate", "math", "equation", "formula", "problem", "compute", "number"}

LanguageKeywords ==
  {"translate", "language", "grammar", "spell", "correct", "edit"}

ClassifyPrompt_explanationFirst(input) ==
  IF input = "" THEN "general"
  ELSE LET lowerInput == ToLower(input)
       IN IF containsAny(lowerInput, ExplanationKeywords) THEN "explanation"
          ELSE IF containsAny(lowerInput, CodeHelpKeywords) THEN "code_help"
          ELSE IF containsAny(lowerInput, CreativeKeywords) THEN "creative"
          ELSE IF containsAny(lowerInput, AnalysisKeywords) THEN "analysis"
          ELSE IF containsAny(lowerInput, ProblemSolvingKeywords) THEN "problem_solving"
          ELSE IF containsAny(lowerInput, LanguageKeywords) THEN "language"
          ELSE "general"

ClassifyPrompt(input) ==
  IF input = "" THEN "general"
  ELSE LET lowerInput == ToLower(input)
       IN IF containsAny(lowerInput, CodeHelpKeywords) THEN "code_help"
          ELSE IF containsAny(lowerInput, ExplanationKeywords) THEN "explanation"
          ELSE IF containsAny(lowerInput, CreativeKeywords) THEN "creative"
          ELSE IF containsAny(lowerInput, AnalysisKeywords) THEN "analysis"
          ELSE IF containsAny(lowerInput, ProblemSolvingKeywords) THEN "problem_solving"
          ELSE IF containsAny(lowerInput, LanguageKeywords) THEN "language"
          ELSE "general"

getErrorType(err) ==
  IF err = "" THEN ""
  ELSE LET errStr == ToLower(err)
       IN IF Contains(errStr, "api") THEN "api_error"
          ELSE IF Contains(errStr, "network") \/ Contains(errStr, "timeout") THEN "network_error"
          ELSE IF Contains(errStr, "auth") \/ Contains(errStr, "unauthorized") THEN "auth_error"
          ELSE IF Contains(errStr, "quota") \/ Contains(errStr, "limit") THEN "quota_error"
          ELSE "unknown_error"

(***************************************************************************)
(* MetricsLogger.  A *Usage is a record with a present flag (nil = not     *)
(* present).  EstimatedCost is kept in millionths of a dollar.             *)
(***************************************************************************)
CostPerTokenMicro == 2

DefaultDailyLimit == 50000

DefaultSessionLimit == 10000

DefaultWarnThresholdPct == 80

DefaultPruneThreshold == 8000

CostWarnMicro == 1000000

DefaultBudgetConfig ==
  [DailyLimit |-> DefaultDailyLimit, SessionLimit |-> DefaultSessionLimit,
   WarnThresholdPct |-> DefaultWarnThresholdPct, PruneThreshold |-> DefaultPruneThreshold,
   CostPerToken |-> CostPerTokenMicro]

NilUsage == [present |-> FALSE, PromptTokens |-> 0, CompletionTokens |-> 0, TotalTokens |-> 0]

Usage(p, c, t) == [present |-> TRUE, PromptTokens |-> p, CompletionTokens |-> c, TotalTokens |-> t]

NewSessionMetrics ==
  [TotalRequests |-> 0, SuccessfulReqs |-> 0, FailedReqs |-> 0,
   TotalTokens |-> 0, PromptTokens |-> 0, CompletionTokens |-> 0,
   EstimatedCost |-> 0, Interactions |-> <<>>]

InteractionLog(usage, responseTime, success, errorType, promptType) ==
  [Usage |-> usage, ResponseTime |-> responseTime, Success |-> success,
   ErrorType |-> errorType, PromptType |-> promptType]

InteractionMetric_noTokens(log) ==
  [ResponseTime   |-> log.ResponseTime,
   Success        |-> log.Success,
   ErrorType      |-> log.ErrorType,
   PromptType     |-> log.PromptType,
   RequestTokens  |-> 0,
   ResponseTokens |-> 0,
   TotalTokens    |-> 0]

InteractionMetric(log) ==
  [ResponseTime   |-> log.ResponseTime,
   Success        |-> log.Success,
   ErrorType      |-> log.ErrorType,
   PromptType     |-> log.PromptType,
   RequestTokens  |-> IF log.Usage.present THEN log.Usage.PromptTokens ELSE 0,
   ResponseTokens |-> IF log.Usage.present THEN log.Usage.CompletionTokens ELSE 0,
   TotalTokens    |-> IF log.Usage.present THEN log.Usage.TotalTokens ELSE 0]

countRequest_allSucceed(s, log) ==
  [s EXCEPT !.TotalRequests = @ + 1, !.SuccessfulReqs = @ + 1]

countRequest(s, log) ==
  IF log.Success
  THEN [s EXCEPT !.TotalRequests = @ + 1, !.SuccessfulReqs = @ + 1]
  ELSE [s EXCEPT !.TotalRequests = @ + 1, !.FailedReqs = @ + 1]

addUsage_unlessClosed(s, log) ==
  IF log.Usage.present /\ ~logFile.closed
  THEN [s EXCEPT !.TotalTokens = @ + log.Usage.TotalTokens,
                 !.PromptTokens = @ + log.Usage.PromptTokens,
                 !.CompletionTokens = @ + log.Usage.CompletionTokens,
                 !.EstimatedCost = @ + log.Usage.TotalTokens * budgetCfg.CostPerToken]
  ELSE s

addUsage(s, log) ==
  IF log.Usage.present
  THEN [s EXCEPT !.TotalTokens = @ + log.Usage.TotalTokens,
                 !.PromptTokens = @ + log.Usage.PromptTokens,
                 !.CompletionTokens = @ + log.Usage.CompletionTokens,
                 !.EstimatedCost = @ + log.Usage.TotalTokens * budgetCfg.CostPerToken]
  ELSE s

LogInteraction_prepend(s, log) ==
  LET counted == countRequest(addUsage(s, log), log)
  IN [counted EXCEPT !.Interactions = <<InteractionMetric(log)>> \o @]

LogInteraction(s, log) ==
  LET counted == countRequest(addUsage(s, log), log)
  IN [counted EXCEPT !.Interactions = Append(@, InteractionMetric(log))]

\* The log file: whether it was closed and how many lines reached it.  A
\* write fails on a closed file or when the disk refuses it; the code ignores
\* the result of WriteString and Sync.
NewLogFile == [closed |-> FALSE, lines |-> 0]

writeLine(f, writeOK) ==
  IF ~f.closed /\ writeOK THEN [f EXCEPT !.lines = @ + 1] ELSE f

closeFile(f) == [f EXCEPT !.closed = TRUE]

\* MetricsLogger.Close: one summary line is written (its result ignored),
\* then the file is closed; closing a closed file reports an error.
closeLogger(f, writeOK) == closeFile(writeLine(f, writeOK))

closeError(f) == IF f.closed THEN "file already closed" ELSE ""

\* fmt.Sprintf("%.1f", 100 * tokens / limit) and fmt.Sprintf("%.3f", dollars):
\* the value rounded to the nearest last digit (an exact tie rounds up here).
Sprintf1f(num, den) ==
  LET tenths == (num * 20 + den) \div (den * 2)
  IN Itoa(tenths \div 10) \o "." \o Itoa(tenths % 10)

Sprintf3f(micro) ==
  LET th == (micro + 500) \div 1000
      frac == th % 1000
  IN Itoa(th \div 1000) \o "."
     \o (IF frac < 10 THEN "00" ELSE IF frac < 100 THEN "0" ELSE "") \o Itoa(frac)

overWarnThreshold_orEqual(cfg, tokens) ==
  tokens * 100 >= cfg.WarnThresholdPct * cfg.SessionLimit

overWarnThreshold(cfg, tokens) ==
  tokens * 100 > cfg.WarnThresholdPct * cfg.SessionLimit

overSessionLimit_orEqual(cfg, tokens) == tokens >= cfg.SessionLimit

overSessionLimit(cfg, tokens) == tokens > cfg.SessionLimit

CheckBudgetStatus(cfg, s) ==
  LET sessionWarnings ==
        IF cfg.SessionLimit > 0 /\ overWarnThreshold(cfg, s.TotalTokens)
        THEN <<"Session token usage at " \o Sprintf1f(s.TotalTokens * 100, cfg.SessionLimit)
               \o "% of limit (" \o Itoa(s.TotalTokens) \o "/" \o Itoa(cfg.SessionLimit)
               \o " tokens)">>
        ELSE <<>>
      costWarnings ==
        IF s.EstimatedCost > CostWarnMicro
        THEN <<"Session cost: $" \o Sprintf3f(s.EstimatedCost)>>
        ELSE <<>>
  IN [SessionTokens |-> s.TotalTokens,
      SessionCost   |-> s.EstimatedCost,
      SessionLimit  |-> cfg.SessionLimit,
      DailyLimit    |-> cfg.DailyLimit,
      ShouldPrune   |-> s.TotalTokens > cfg.PruneThreshold,
      Warnings      |-> sessionWarnings \o costWarnings,
      OverBudget    |-> cfg.SessionLimit > 0 /\ overSessionLimit(cfg, s.TotalTokens)]

RECURSIVE totalResponseTime(_)
totalResponseTime(interactions) ==
  IF interactions = <<>> THEN 0
  ELSE Head(interactions).ResponseTime + totalResponseTime(Tail(interactions))

\* SuccessRate is a float quotient: 0/0 is NaN, otherwise kept as the pair.
GetSessionSummary(s) ==
  [TotalRequests   |-> s.TotalRequests,
   SuccessRate     |-> [NaN |-> s.TotalRequests = 0,
                        num |-> s.SuccessfulReqs, den |-> s.TotalRequests],
   TotalTokens     |-> s.TotalTokens,
   EstimatedCost   |-> s.EstimatedCost,
   AvgResponseTime |-> IF Len(s.Interactions) > 0
                       THEN totalResponseTime(s.Interactions) \div Len(s.Interactions)
                       ELSE 0]

GetPromptTypeBreakdown_successOnly(s) ==
  LET counted == {i \in 1..Len(s.Interactions) : s.Interactions[i].Success}
      types == {s.Interactions[i].PromptType : i \in counted} \ {""}
  IN [t \in types |->
        Cardinality({i \in counted : s.Interactions[i].PromptType = t})]

GetPromptTypeBreakdown(s) ==
  LET types == {s.Interactions[i].PromptType : i \in 1..Len(s.Interactions)} \ {""}
  IN [t \in types |->
        Cardinality({i \in 1..Len(s.Interactions) : s.Interactions[i].PromptType = t})]

(***************************************************************************)
(* ChatSession                                                             *)
(***************************************************************************)
AutoPruneResult_forced(c, messages) ==
  LET r == PruneContext(c, messages, c.maxTokens + 1)
  IN IF r.pruned THEN [messages |-> r.messages, ret |-> TRUE]
     ELSE [messages |-> messages, ret |-> FALSE]

AutoPruneResult(c, messages) ==
  LET originalTokens == EstimateTokens(messages)
      r == PruneContext(c, messages, originalTokens)
  IN IF r.pruned THEN [messages |-> r.messages, ret |-> TRUE]
     ELSE [messages |-> messages, ret |-> FALSE]

removeLastUserMessage(messages) ==
  IF Len(messages) > 0 /\ messages[Len(messages)].Role = RoleUser
  THEN SubSeq(messages, 1, Len(messages) - 1)
  ELSE messages

turnWarnings_stale(cfg, before, after) == CheckBudgetStatus(cfg, before).Warnings

turnWarnings(cfg, before, after) == CheckBudgetStatus(cfg, after).Warnings

NoCall ==
  [op |-> "none", preMessages |-> <<>>, preSession |-> NewSessionMetrics,
   currentTokens |-> 0, pruned |-> FALSE, prevPruned |-> FALSE,
   err |-> "", retErr |-> "", userMessage |-> "", respUsage |-> NilUsage,
   respChoices |-> <<>>, autoPruned |-> FALSE, sent |-> <<>>,
   preSystemPrompt |-> "", content |-> "", warnings |-> <<>>, status |-> <<>>,
   preLogFile |-> NewLogFile, dispatched |-> <<>>]

\* What the completion capability can answer: an error (no response), or a
\* decoded response with zero or one choice and with or without usage.
UtterancePool == {"Explain this CODE error"}

ReplyPool == {"ok"}

ErrorPool == {"request failed: timeout"}

UsagePool == {Usage(3, 2, 5)}

LatencyPool == {7}

\* Whether the disk accepts a log line.
DiskAccepts == {TRUE}

PromptPool == {"", "Be terse."}

Responses ==
  [err : ErrorPool, Choices : {<<>>}, Usage : {NilUsage}]
  \cup [err : {""}, Choices : {<<r>> : r \in ReplyPool}, Usage : UsagePool]
  \cup [err : {""}, Choices : {<<>>}, Usage : UsagePool \ {NilUsage}]

\* The web server: the session manager's map (the set of stored session
\* ids and the logical time of the last access) and, per request handler,
\* where it stands in handleChat.  No server: nothing stored, all idle.
MaxHandlers == 2

WebRequests == 1..MaxHandlers

IdleRequest == [pc |-> "idle", held |-> "", message |-> ""]

\* The process environment main.go reads at start-up, and how far start-up
\* has gone: "start", "running" (a mode is serving with the budget
\* configuration it was handed), "loaded" (config.LoadFromEnv returned a
\* Config) or "rejected" (start-up returned an error).
Environ(apiKey, tokenBudget, costBudget, phase) ==
  [API_KEY |-> apiKey, TOKEN_BUDGET |-> tokenBudget, COST_BUDGET |-> costBudget,
   phase |-> phase]

StartedProcess == Environ("sk", "", "", "running")

\* InMemorySessionManager and the goroutines calling it: one per HTTP
\* request, and the cleanup routine.  objects are the
\* ChatSessions allocated so far (a handler keeps its pointer after the map
\* entry is gone); sessions maps an ID to an object, sessionAge to the time
\* of last access; mutex is the RWMutex; now is the clock in seconds.
MgrCalls == 2

MgrMaxAge == 0

Goroutines == 1..MgrCalls

\* The goroutine of startSessionCleanup, which loops for as long as the
\* server runs.
Cleaner == MgrCalls + 1

IdleGoroutine == [pc |-> "idle", id |-> "", message |-> "", session |-> 0, ret |-> 0]

DoneGoroutine == [IdleGoroutine EXCEPT !.pc = "done"]

NewInMemorySessionManager(maxAge) ==
  [sessions |-> <<>>, sessionAge |-> <<>>, maxAge |-> maxAge,
   mutex |-> [writer |-> 0, readers |-> {}],
   objects |-> <<>>, now |-> 0,
   g |-> [h \in Goroutines \cup {Cleaner} |-> IdleGoroutine]]

NoServer == [sessions |-> {}, sessionAge |-> 0, arrivals |-> 0,
             req |-> [r \in WebRequests |-> IdleRequest]]

ContextManagers ==
  {NewContextManager(m, k, e) :
     m \in {TightMaxTokens, DefaultMaxTokens}, k \in 1..MaxKeepRecent, e \in BOOLEAN}

Init ==
  /\ cm \in {c \in ContextManagers : c.keepRecent = 1}
  /\ SystemPrompt = DefaultSystemPrompt
  /\ Messages = <<Message(RoleSystem, DefaultSystemPrompt)>>
  /\ session = NewSessionMetrics
  /\ last = NoCall
  /\ returnedTokens = 0
  /\ budgetCfg = [DefaultBudgetConfig EXCEPT !.SessionLimit = TightSessionLimit]
  /\ logFile = NewLogFile
  /\ web = NoServer
  /\ env = StartedProcess
  /\ sm = NewInMemorySessionManager(MgrMaxAge)

\* The start of ProcessUserMessage: the two prune checks on the history as
\* it stands, then the append of the utterance.  The result is the request.
preparedHistory_appendFirst(c, messages, userMessage) ==
  LET m0 == Append(messages, Message(RoleUser, userMessage))
      m1 == IF ShouldPrune(c, m0) THEN AutoPruneResult(c, m0).messages ELSE m0
  IN IF Len(m1) > HardMessageLimit THEN AutoPruneResult(c, m1).messages ELSE m1

preparedHistory(c, messages, userMessage) ==
  LET m1 == IF ShouldPrune(c, messages) THEN AutoPruneResult(c, messages).messages
            ELSE messages
      m2 == IF Len(m1) > HardMessageLimit THEN AutoPruneResult(c, m1).messages ELSE m1
  IN Append(m2, Message(RoleUser, userMessage))

\* The requests ProcessUserMessage hands to CreateCompletion: one call, in
\* straight-line code, whatever it answers.
dispatchesOf_retryOnError(request, resp) ==
  IF resp.err # "" THEN <<request, request>> ELSE <<request>>

dispatchesOf(request, resp) == <<request>>

ProcessUserMessage(userMessage, resp, responseTime, writeOK) ==
  /\ LET m3 == preparedHistory(cm, Messages, userMessage)
         m2 == SubSeq(m3, 1, Len(m3) - 1)
         promptType == ClassifyPrompt(userMessage)
         hasReply == resp.err = "" /\ Len(resp.Choices) > 0
         reply == IF hasReply THEN resp.Choices[1] ELSE ""
         usage == IF hasReply THEN resp.Usage ELSE NilUsage
         logged == LogInteraction(session,
                     InteractionLog(usage, responseTime, resp.err = "",
                                    getErrorType(resp.err), promptType))
     IN /\ session' = logged
        /\ logFile' = writeLine(logFile, writeOK)
        /\ Messages' = IF resp.err # "" THEN removeLastUserMessage(m3)
                       ELSE Append(m3, Message(RoleAssistant, reply))
        /\ returnedTokens' = IF resp.err = "" /\ resp.Usage.present
                             THEN returnedTokens + resp.Usage.TotalTokens
                             ELSE returnedTokens
        /\ last' = [NoCall EXCEPT !.op = "ProcessUserMessage",
                                  !.preMessages = Messages,
                                  !.preSession = session,
                                  !.err = resp.err,
                                  !.retErr = resp.err,
                                  !.userMessage = userMessage,
                                  !.respUsage = resp.Usage,
                                  !.respChoices = resp.Choices,
                                  !.autoPruned = (m2 # Messages),
                                  !.sent = m3,
                                  !.dispatched = dispatchesOf(m3, resp),
                                  !.preSystemPrompt = SystemPrompt,
                                  !.content = reply,
                                  !.preLogFile = logFile,
                                  !.warnings = IF resp.err # "" THEN <<>>
                                               ELSE turnWarnings(budgetCfg, session, logged)]
  /\ UNCHANGED <<cm, SystemPrompt, budgetCfg, web, env, sm>>

ResetResult_default(currentPrompt, systemPrompt) ==
  LET prompt == IF systemPrompt = "" THEN DefaultSystemPrompt ELSE systemPrompt
  IN [SystemPrompt |-> prompt, Messages |-> <<Message(RoleSystem, prompt)>>]

ResetResult(currentPrompt, systemPrompt) ==
  LET prompt == IF systemPrompt = "" THEN currentPrompt ELSE systemPrompt
  IN [SystemPrompt |-> prompt, Messages |-> <<Message(RoleSystem, prompt)>>]

Reset_clearsMetrics(systemPrompt) ==
  LET r == ResetResult(SystemPrompt, systemPrompt)
  IN /\ SystemPrompt' = r.SystemPrompt
     /\ Messages' = r.Messages
     /\ session' = NewSessionMetrics
     /\ last' = [NoCall EXCEPT !.op = "Reset", !.preMessages = Messages,
                               !.preSession = session, !.userMessage = systemPrompt,
                               !.preSystemPrompt = SystemPrompt]
     /\ UNCHANGED <<cm, returnedTokens, budgetCfg, logFile, web, env, sm>>

Reset(systemPrompt) ==
  LET r == ResetResult(SystemPrompt, systemPrompt)
  IN /\ SystemPrompt' = r.SystemPrompt
     /\ Messages' = r.Messages
     /\ last' = [NoCall EXCEPT !.op = "Reset", !.preMessages = Messages,
                               !.preSession = session, !.userMessage = systemPrompt,
                               !.preSystemPrompt = SystemPrompt]
     /\ UNCHANGED <<cm, session, returnedTokens, budgetCfg, logFile, web, env, sm>>

UpdateSystemPrompt(newPrompt) ==
  LET r == ResetResult(newPrompt, newPrompt)
  IN /\ SystemPrompt' = r.SystemPrompt
     /\ Messages' = r.Messages
     /\ last' = [NoCall EXCEPT !.op = "UpdateSystemPrompt", !.preMessages = Messages,
                               !.preSession = session, !.userMessage = newPrompt,
                               !.preSystemPrompt = SystemPrompt]
     /\ UNCHANGED <<cm, session, returnedTokens, budgetCfg, logFile, web, env, sm>>

AutoPrune ==
  LET r == AutoPruneResult(cm, Messages)
  IN /\ Messages' = r.messages
     /\ last' = [NoCall EXCEPT !.op = "AutoPrune", !.preMessages = Messages,
                               !.preSession = session, !.pruned = r.ret,
                               !.currentTokens = EstimateTokens(Messages),
                               !.preSystemPrompt = SystemPrompt]
     /\ UNCHANGED <<cm, SystemPrompt, session, returnedTokens, budgetCfg, logFile, web, env, sm>>

Next ==
  \/ \E u \in UtterancePool, r \in Responses, t \in LatencyPool, w \in DiskAccepts :
       session.TotalRequests < MaxTurns /\ ProcessUserMessage(u, r, t, w)
  \/ \E p \in PromptPool : Reset(p)
  \/ \E p \in PromptPool : UpdateSystemPrompt(p)
  \/ AutoPrune

Spec == Init /\ [][Next]_vars

(***************************************************************************)
(* PruneContext as a pure function: the inputs are drawn from bounded      *)
(* sets and the function is applied to them, and again to its own output.  *)
(***************************************************************************)
MessagePool ==
  {Message(RoleSystem, DefaultSystemPrompt), Message(RoleSystem, ""),
   Message(RoleUser, "Fix this CODE error"), Message(RoleUser, "hi"),
   Message(RoleAssistant, "ok")}

MessageSeqs == UNION {[1..n -> MessagePool] : n \in 0..MaxMessages}

TokenArgs(c, messages) == {0, c.maxTokens, c.maxTokens + 1, EstimateTokens(messages)}

PruneInit ==
  /\ cm \in ContextManagers
  /\ Messages \in MessageSeqs
  /\ SystemPrompt = ""
  /\ session = NewSessionMetrics
  /\ last = NoCall
  /\ returnedTokens = 0
  /\ budgetCfg = DefaultBudgetConfig
  /\ logFile = NewLogFile
  /\ web = NoServer
  /\ env = StartedProcess
  /\ sm = NewInMemorySessionManager(MgrMaxAge)

CallPruneContext(currentTokens) ==
  LET r == PruneContext(cm, Messages, currentTokens)
  IN /\ Messages' = r.messages
     /\ last' = [NoCall EXCEPT !.op = "PruneContext", !.preMessages = Messages,
                               !.currentTokens = currentTokens, !.pruned = r.pruned,
                               !.prevPruned = (last.op = "PruneContext" /\ last.pruned)]
     /\ UNCHANGED <<cm, SystemPrompt, session, returnedTokens, budgetCfg, logFile, web, env, sm>>

PruneNext == \E t \in TokenArgs(cm, Messages) : CallPruneContext(t)

SpecPrune == PruneInit /\ [][PruneNext]_vars

(***************************************************************************)
(* A web session (CreateSession: 8000 tokens, 10 exchanges) that has       *)
(* already served many short exchanges, around the 1000-message ceiling.   *)
(***************************************************************************)
WebMaxTokens == 8000

WebKeepRecent == 10

WebSystemPrompt == "You are ChatGBT, a helpful AI assistant."

CeilingTurns == 3

ShortExchanges(n) ==
  [i \in 1..(2 * n) |-> IF i % 2 = 1 THEN Message(RoleUser, "hi")
                                     ELSE Message(RoleAssistant, "ok")]

ServedSession(n) ==
  [NewSessionMetrics EXCEPT
     !.TotalRequests = n, !.SuccessfulReqs = n,
     !.Interactions = [i \in 1..n |->
                         InteractionMetric(InteractionLog(NilUsage, 7, TRUE, "", "general"))]]

\* 499 exchanges leave 999 messages, 500 exchanges leave 1001.
CeilingExchanges == ((HardMessageLimit \div 2) - 1)..(HardMessageLimit \div 2)

CeilingInit ==
  /\ cm \in {NewContextManager(WebMaxTokens, WebKeepRecent, e) : e \in BOOLEAN}
  /\ SystemPrompt = WebSystemPrompt
  /\ \E n \in CeilingExchanges :
       /\ Messages = <<Message(RoleSystem, WebSystemPrompt)>> \o ShortExchanges(n)
       /\ session = ServedSession(n)
       /\ logFile = [closed |-> FALSE, lines |-> n]
  /\ last = NoCall
  /\ returnedTokens = 0
  /\ budgetCfg = DefaultBudgetConfig
  /\ web = NoServer
  /\ env = StartedProcess
  /\ sm = NewInMemorySessionManager(MgrMaxAge)

CeilingNext ==
  \E r \in Responses, t \in LatencyPool, w \in DiskAccepts :
    /\ session.TotalRequests < (HardMessageLimit \div 2) + CeilingTurns
    /\ ProcessUserMessage("hi", r, t, w)

SpecCeiling == CeilingInit /\ [][CeilingNext]_vars

(***************************************************************************)
(* The MetricsLogger on its own: interactions are logged with and without  *)
(* usage, the disk accepts or refuses each line, the budget status is      *)
(* queried, and the logger is closed (after which it can still be called). *)
(***************************************************************************)
LoggerTurns == 3

LoggerUsagePool ==
  {Usage(6000, 2000, 8000), Usage(300, 200, 500), Usage(1000, 500, 1500)}

LoggerLogs ==
  {InteractionLog(NilUsage, 7, FALSE, "timeout", "general"),
   InteractionLog(NilUsage, 7, TRUE, "", "general")}
  \cup {InteractionLog(u, 7, TRUE, "", "general") : u \in LoggerUsagePool}

BudgetConfigs ==
  {DefaultBudgetConfig, [DefaultBudgetConfig EXCEPT !.SessionLimit = 0]}

LoggerInit ==
  /\ cm = NewContextManager(WebMaxTokens, WebKeepRecent, TRUE)
  /\ SystemPrompt = ""
  /\ Messages = <<>>
  /\ session = NewSessionMetrics
  /\ last = NoCall
  /\ returnedTokens = 0
  /\ budgetCfg \in BudgetConfigs
  /\ logFile = NewLogFile
  /\ web = NoServer
  /\ env = StartedProcess
  /\ sm = NewInMemorySessionManager(MgrMaxAge)

CallLogInteraction(log, writeOK) ==
  /\ session' = LogInteraction(session, log)
  /\ logFile' = writeLine(logFile, writeOK)
  /\ last' = [NoCall EXCEPT !.op = "LogInteraction", !.preSession = session,
                            !.respUsage = log.Usage, !.preLogFile = logFile]
  /\ UNCHANGED <<cm, Messages, SystemPrompt, returnedTokens, budgetCfg, web, env, sm>>

CallCheckBudgetStatus ==
  /\ last' = [NoCall EXCEPT !.op = "CheckBudgetStatus", !.preSession = session,
                            !.preLogFile = logFile,
                            !.status = CheckBudgetStatus(budgetCfg, session)]
  /\ UNCHANGED <<cm, Messages, SystemPrompt, session, returnedTokens, budgetCfg, logFile, web, env, sm>>

CallClose(writeOK) ==
  /\ logFile' = closeLogger(logFile, writeOK)
  /\ last' = [NoCall EXCEPT !.op = "Close", !.preSession = session,
                            !.preLogFile = logFile, !.retErr = closeError(logFile)]
  /\ UNCHANGED <<cm, Messages, SystemPrompt, session, returnedTokens, budgetCfg, web, env, sm>>

LoggerNext ==
  \/ \E log \in LoggerLogs, w \in BOOLEAN :
       session.TotalRequests < LoggerTurns /\ CallLogInteraction(log, w)
  \/ CallCheckBudgetStatus
  \/ \E w \in BOOLEAN : CallClose(w)

SpecLogger == LoggerInit /\ [][LoggerNext]_vars

(***************************************************************************)
(* Every operation of a ChatSession: turns, reset, prompt update, manual   *)
(* prune, the four read-only queries, and Close (after which the session   *)
(* can still be called and its log lines no longer reach the file).        *)
(***************************************************************************)
OpsTurns == 2

GetBudgetStatus == CallCheckBudgetStatus

CallGetSessionSummary ==
  /\ last' = [NoCall EXCEPT !.op = "GetSessionSummary", !.preSession = session,
                            !.preLogFile = logFile,
                            !.status = GetSessionSummary(session)]
  /\ UNCHANGED <<cm, Messages, SystemPrompt, session, returnedTokens, budgetCfg, logFile, web, env, sm>>

CallGetPromptTypeBreakdown ==
  /\ last' = [NoCall EXCEPT !.op = "GetPromptTypeBreakdown", !.preSession = session,
                            !.preLogFile = logFile,
                            !.status = GetPromptTypeBreakdown(session)]
  /\ UNCHANGED <<cm, Messages, SystemPrompt, session, returnedTokens, budgetCfg, logFile, web, env, sm>>

CallGetContextStats ==
  /\ last' = [NoCall EXCEPT !.op = "GetContextStats", !.preSession = session,
                            !.preMessages = Messages, !.preLogFile = logFile,
                            !.status = GetContextStats(cm, Messages)]
  /\ UNCHANGED <<cm, Messages, SystemPrompt, session, returnedTokens, budgetCfg, logFile, web, env, sm>>

OpsInit ==
  /\ Init
  /\ cm = NewContextManager(TightMaxTokens, 1, TRUE)

\* The completion call fails, or answers with one choice and its usage.
OpsResponses == {r \in Responses : r.err # "" \/ (r.Choices # <<>> /\ r.Usage.present)}

OpsUtterancePool == UtterancePool \cup {"hi"}

OpsNext ==
  \/ \E u \in OpsUtterancePool, r \in OpsResponses, t \in LatencyPool, w \in DiskAccepts :
       session.TotalRequests < OpsTurns /\ ProcessUserMessage(u, r, t, w)
  \/ \E p \in PromptPool : Reset(p)
  \/ \E p \in PromptPool \ {""} : UpdateSystemPrompt(p)
  \/ AutoPrune
  \/ GetBudgetStatus
  \/ CallGetSessionSummary
  \/ CallGetPromptTypeBreakdown
  \/ CallGetContextStats
  \/ \E w \in BOOLEAN : CallClose(w)

SpecOps == OpsInit /\ [][OpsNext]_vars

(***************************************************************************)
(* The web server.  One session was created by an earlier request and its  *)
(* cookie is carried by every request that follows.  Each /chat request is *)
(* served by its own handler: GetSession looks the session up under the    *)
(* manager's read lock, then refreshes its age under the write lock (each  *)
(* critical section is one step); handleChat then calls ProcessUserMessage *)
(* on the session it got, holding no lock: the part up to the dispatch of  *)
(* the completion request is one step, the part after the answer another.  *)
(***************************************************************************)
MaxArrivals == 3

WebSessionID == "web_user_1"

WebMessagePool == {"", "hi", "yo"}

WebInit ==
  /\ cm = NewContextManager(WebMaxTokens, WebKeepRecent, TRUE)
  /\ SystemPrompt = WebSystemPrompt
  /\ Messages = <<Message(RoleSystem, WebSystemPrompt)>>
  /\ session = NewSessionMetrics
  /\ last = NoCall
  /\ returnedTokens = 0
  /\ budgetCfg = DefaultBudgetConfig
  /\ logFile = NewLogFile
  /\ web = [NoServer EXCEPT !.sessions = {WebSessionID}]
  /\ env = StartedProcess
  /\ sm = NewInMemorySessionManager(MgrMaxAge)

\* GetSession, first critical section (RLock): read the map.  A cookie that
\* names no stored session would make getOrCreateSession create another one.
WebGetSession(r, cookie, message) ==
  /\ web.req[r].pc = "idle"
  /\ cookie \in web.sessions
  /\ web' = [web EXCEPT !.arrivals = @ + 1,
                        !.req[r] = [pc |-> "found", held |-> cookie, message |-> message]]
  /\ UNCHANGED <<cm, Messages, SystemPrompt, session, last, returnedTokens, budgetCfg, logFile, env, sm>>

\* GetSession, second critical section (Lock): refresh the access time.
WebTouchSession(r) ==
  /\ web.req[r].pc = "found"
  /\ web' = [web EXCEPT !.sessionAge = @ + 1, !.req[r].pc = "got"]
  /\ UNCHANGED <<cm, Messages, SystemPrompt, session, last, returnedTokens, budgetCfg, logFile, env, sm>>

\* handleChat with an empty message answers 400 without touching the session.
WebRejectEmpty(r) ==
  /\ web.req[r].pc = "got"
  /\ web.req[r].message = ""
  /\ web' = [web EXCEPT !.req[r] = IdleRequest]
  /\ UNCHANGED <<cm, Messages, SystemPrompt, session, last, returnedTokens, budgetCfg, logFile, env, sm>>

\* ProcessUserMessage up to the dispatch of the completion request.
WebBeginTurn(r) ==
  /\ web.req[r].pc = "got"
  /\ web.req[r].message # ""
  /\ LET m1 == IF ShouldPrune(cm, Messages)
               THEN AutoPruneResult(cm, Messages).messages ELSE Messages
         m2 == IF Len(m1) > HardMessageLimit
               THEN AutoPruneResult(cm, m1).messages ELSE m1
     IN Messages' = Append(m2, Message(RoleUser, web.req[r].message))
  /\ web' = [web EXCEPT !.req[r].pc = "inflight"]
  /\ UNCHANGED <<cm, SystemPrompt, session, last, returnedTokens, budgetCfg, logFile, env, sm>>

\* ProcessUserMessage from the answer of the completion request on, and the
\* rendering of the reply or of the error.
WebCompleteTurn(r, resp, responseTime, writeOK) ==
  /\ web.req[r].pc = "inflight"
  /\ LET userMessage == web.req[r].message
         hasReply == resp.err = "" /\ Len(resp.Choices) > 0
         reply == IF hasReply THEN resp.Choices[1] ELSE ""
         usage == IF hasReply THEN resp.Usage ELSE NilUsage
         logged == LogInteraction(session,
                     InteractionLog(usage, responseTime, resp.err = "",
                                    getErrorType(resp.err), ClassifyPrompt(userMessage)))
     IN /\ session' = logged
        /\ logFile' = writeLine(logFile, writeOK)
        /\ Messages' = IF resp.err # "" THEN removeLastUserMessage(Messages)
                       ELSE Append(Messages, Message(RoleAssistant, reply))
        /\ returnedTokens' = IF resp.err = "" /\ resp.Usage.present
                             THEN returnedTokens + resp.Usage.TotalTokens
                             ELSE returnedTokens
        /\ last' = [NoCall EXCEPT !.op = "handleChat",
                                  !.preMessages = Messages,
                                  !.preSession = session,
                                  !.err = resp.err,
                                  !.retErr = resp.err,
                                  !.userMessage = userMessage,
                                  !.respUsage = resp.Usage,
                                  !.respChoices = resp.Choices,
                                  !.content = reply,
                                  !.preLogFile = logFile,
                                  !.warnings = IF resp.err # "" THEN <<>>
                                               ELSE turnWarnings(budgetCfg, session, logged)]
  /\ web' = [web EXCEPT !.req[r] = IdleRequest]
  /\ UNCHANGED <<cm, SystemPrompt, budgetCfg, env, sm>>

\* handleReset: the session is looked up as in handleChat, then reset to
\* the server's default prompt, whatever turn is in flight on it.
WebHandleReset(cookie) ==
  /\ cookie \in web.sessions
  /\ web' = [web EXCEPT !.arrivals = @ + 1, !.sessionAge = @ + 1]
  /\ LET r == ResetResult(SystemPrompt, DefaultSystemPrompt)
     IN /\ SystemPrompt' = r.SystemPrompt
        /\ Messages' = r.Messages
  /\ last' = [NoCall EXCEPT !.op = "handleReset", !.preMessages = Messages,
                            !.preSession = session, !.preSystemPrompt = SystemPrompt]
  /\ UNCHANGED <<cm, session, returnedTokens, budgetCfg, logFile, env, sm>>

WebNext ==
  \/ \E c \in {WebSessionID} : web.arrivals < MaxArrivals /\ WebHandleReset(c)
  \/ \E r \in WebRequests, c \in {WebSessionID}, m \in WebMessagePool :
       web.arrivals < MaxArrivals /\ WebGetSession(r, c, m)
  \/ \E r \in WebRequests : WebTouchSession(r)
  \/ \E r \in WebRequests : WebRejectEmpty(r)
  \/ \E r \in WebRequests : WebBeginTurn(r)
  \/ \E r \in WebRequests, resp \in OpsResponses, t \in LatencyPool, w \in DiskAccepts :
       WebCompleteTurn(r, resp, t, w)

SpecWeb == WebInit /\ [][WebNext]_vars

(***************************************************************************)
(* The pure functions of the context manager and the prompt classifier,    *)
(* applied to inputs drawn from bounded sets.  createSummary is private    *)
(* and only called by PruneContext on a non-empty discard set.             *)
(***************************************************************************)
FnMaxLen == 3

FnMessagePool ==
  {Message(RoleSystem, DefaultSystemPrompt),
   Message(RoleSystem, "Previous conversation summary: Discussed code/debugging across 1 exchanges"),
   Message(RoleUser, "Explain this CODE error"), Message(RoleUser, "Write a poem"),
   Message(RoleUser, "hi"), Message(RoleAssistant, "what code")}

FnMessageSeqs == UNION {[1..n -> FnMessagePool] : n \in 0..FnMaxLen}

FnInit ==
  /\ cm \in {NewContextManager(m, 1, TRUE) : m \in {TightMaxTokens, DefaultMaxTokens}}
  /\ Messages \in FnMessageSeqs
  /\ SystemPrompt = ""
  /\ session = NewSessionMetrics
  /\ last = NoCall
  /\ returnedTokens = 0
  /\ budgetCfg = DefaultBudgetConfig
  /\ logFile = NewLogFile
  /\ web = NoServer
  /\ env = StartedProcess
  /\ sm = NewInMemorySessionManager(MgrMaxAge)

CallEstimateTokens ==
  /\ last' = [NoCall EXCEPT !.op = "EstimateTokens", !.preMessages = Messages,
                            !.currentTokens = EstimateTokens(Messages)]
  /\ UNCHANGED <<cm, Messages, SystemPrompt, session, returnedTokens, budgetCfg, logFile, web, env, sm>>

CallShouldPrune ==
  /\ last' = [NoCall EXCEPT !.op = "ShouldPrune", !.preMessages = Messages,
                            !.pruned = ShouldPrune(cm, Messages)]
  /\ UNCHANGED <<cm, Messages, SystemPrompt, session, returnedTokens, budgetCfg, logFile, web, env, sm>>

CallCreateSummary ==
  /\ Messages # <<>>
  /\ last' = [NoCall EXCEPT !.op = "createSummary", !.preMessages = Messages,
                            !.content = createSummary(Messages)]
  /\ UNCHANGED <<cm, Messages, SystemPrompt, session, returnedTokens, budgetCfg, logFile, web, env, sm>>

FnNext ==
  \/ CallEstimateTokens
  \/ CallShouldPrune
  \/ CallGetContextStats
  \/ CallCreateSummary

SpecFunctions == FnInit /\ [][FnNext]_vars

(***************************************************************************)
(* ClassifyPrompt applied to utterances of up to ClassifyMaxWords words.   *)
(***************************************************************************)
ClassifyMaxWords == 2

ClassifyWords ==
  {"hi", "CODE", "Explain", "show", "Write", "review", "solve", "translate",
   "correctly", "poem"}

RECURSIVE Utterances(_)
Utterances(n) ==
  IF n = 0 THEN {""}
  ELSE LET shorter == Utterances(n - 1)
       IN shorter \cup {IF u = "" THEN w ELSE u \o " " \o w :
                          u \in shorter, w \in ClassifyWords}

ClassifyPool == Utterances(ClassifyMaxWords)

ClassifyInit ==
  /\ cm = NewContextManager(WebMaxTokens, WebKeepRecent, TRUE)
  /\ Messages = <<>>
  /\ SystemPrompt = ""
  /\ session = NewSessionMetrics
  /\ last \in {[NoCall EXCEPT !.userMessage = u] : u \in ClassifyPool}
  /\ returnedTokens = 0
  /\ budgetCfg = DefaultBudgetConfig
  /\ logFile = NewLogFile
  /\ web = NoServer
  /\ env = StartedProcess
  /\ sm = NewInMemorySessionManager(MgrMaxAge)

\* The one call of a behaviour, on the utterance drawn at the start.
CallClassifyPrompt(input) ==
  /\ last.op = "none"
  /\ last' = [NoCall EXCEPT !.op = "ClassifyPrompt", !.preMessages = Messages,
                            !.userMessage = input, !.content = ClassifyPrompt(input)]
  /\ UNCHANGED <<cm, Messages, SystemPrompt, session, returnedTokens, budgetCfg, logFile, web, env, sm>>

ClassifyNext == CallClassifyPrompt(last.userMessage)

SpecClassify == ClassifyInit /\ [][ClassifyNext]_vars

(***************************************************************************)
(* Start-up: the budget configuration read from the environment.  Two      *)
(* loaders exist: createBudgetConfig of main.go, which run() uses, and     *)
(* config.LoadFromEnv, which validates.  A cost budget is kept in          *)
(* millionths of a dollar, as EstimatedCost is.                            *)
(***************************************************************************)
ConfigTurns == 2

IsDigits(s) ==
  Len(s) > 0 /\ \A i \in 1..Len(s) : \E d \in 1..Len(DigitChars) : CharAt(DigitChars, d) = CharAt(s, i)

DigitValue(c) == (CHOOSE d \in 1..Len(DigitChars) : CharAt(DigitChars, d) = c) - 1

RECURSIVE ParseDigits(_)
ParseDigits(s) ==
  IF s = "" THEN 0
  ELSE ParseDigits(SubSeq(s, 1, Len(s) - 1)) * 10 + DigitValue(CharAt(s, Len(s)))

Unsigned(s) == IF HasPrefix(s, "-") \/ HasPrefix(s, "+") THEN SubSeq(s, 2, Len(s)) ELSE s

\* strconv.Atoi: an optional sign and decimal digits, an error otherwise.
Atoi(s) ==
  IF IsDigits(Unsigned(s))
  THEN [err |-> FALSE,
        value |-> IF HasPrefix(s, "-") THEN 0 - ParseDigits(Unsigned(s))
                  ELSE ParseDigits(Unsigned(s))]
  ELSE [err |-> TRUE, value |-> 0]

IndexOfDot(s) ==
  IF Contains(s, ".") THEN CHOOSE i \in 1..Len(s) : CharAt(s, i) = "." /\ ~Contains(SubSeq(s, 1, i - 1), ".")
  ELSE 0

\* strconv.ParseFloat on plain decimals of at most six places, the value in
\* millionths; any other text is an error.
ParseFloat(s) ==
  LET u == Unsigned(s)
      dot == IndexOfDot(u)
      whole == IF dot = 0 THEN u ELSE SubSeq(u, 1, dot - 1)
      frac == IF dot = 0 THEN "0" ELSE SubSeq(u, dot + 1, Len(u))
      micro == ParseDigits(whole) * 1000000 + ParseDigits(SubSeq(frac \o "000000", 1, 6))
  IN IF IsDigits(whole) /\ IsDigits(frac) /\ Len(frac) <= 6
     THEN [err |-> FALSE, value |-> IF HasPrefix(s, "-") THEN 0 - micro ELSE micro]
     ELSE [err |-> TRUE, value |-> 0]

\* int(costBudget / cfg.CostPerToken): the quotient truncated toward zero.
tokensForCost(costMicro, costPerToken) ==
  IF costMicro >= 0 THEN costMicro \div costPerToken
  ELSE 0 - ((0 - costMicro) \div costPerToken)

\* createBudgetConfig of main.go: any TOKEN_BUDGET that parses is taken,
\* then any COST_BUDGET that parses overrides it.
createBudgetConfig(e) ==
  LET tok == Atoi(e.TOKEN_BUDGET)
      c1 == IF e.TOKEN_BUDGET # "" /\ ~tok.err
            THEN [DefaultBudgetConfig EXCEPT !.SessionLimit = tok.value]
            ELSE DefaultBudgetConfig
      cost == ParseFloat(e.COST_BUDGET)
  IN IF e.COST_BUDGET # "" /\ ~cost.err
     THEN [c1 EXCEPT !.SessionLimit = tokensForCost(cost.value, c1.CostPerToken)]
     ELSE c1

\* loadTokenBudget of the config package: a value of zero or below is
\* refused with a warning and the default kept.
loadTokenBudget(cfg, e) ==
  LET tok == Atoi(e.TOKEN_BUDGET)
  IN IF e.TOKEN_BUDGET = "" \/ tok.err \/ tok.value <= 0 THEN cfg
     ELSE [cfg EXCEPT !.SessionLimit = tok.value]

loadCostBudget(cfg, e) ==
  LET cost == ParseFloat(e.COST_BUDGET)
  IN IF e.COST_BUDGET = "" \/ cost.err \/ cost.value <= 0 THEN cfg
     ELSE [cfg EXCEPT !.SessionLimit = tokensForCost(cost.value, cfg.CostPerToken)]

loadBudgetConfig(e) == loadCostBudget(loadTokenBudget(DefaultBudgetConfig, e), e)

\* Config.Validate: the error it returns, "" for none.  URL, model and port
\* have defaults and are always set.
Validate(apiKey, budget) ==
  IF apiKey = "" THEN "API_KEY is required"
  ELSE IF budget.SessionLimit <= 0 THEN "session limit must be positive"
  ELSE ""

TokenBudgetEnv == {"", "0", "-5", "12", "abc"}

CostBudgetEnv == {"", "0.000001", "0.000025", "-0.000004", "x"}

ConfigInit ==
  /\ cm = NewContextManager(TightMaxTokens, 1, TRUE)
  /\ SystemPrompt = ""
  /\ Messages = <<>>
  /\ session = NewSessionMetrics
  /\ last = NoCall
  /\ returnedTokens = 0
  /\ budgetCfg = DefaultBudgetConfig
  /\ logFile = NewLogFile
  /\ web = NoServer
  /\ env \in {Environ(k, t, c, "start") :
                k \in {"", "sk"}, t \in TokenBudgetEnv, c \in CostBudgetEnv}
  /\ sm = NewInMemorySessionManager(MgrMaxAge)

\* run of main.go up to the mode switch: createConfig fails without an API
\* key, createBudgetConfig cannot fail.
run ==
  /\ env.phase = "start"
  /\ IF env.API_KEY = ""
     THEN /\ env' = [env EXCEPT !.phase = "rejected"]
          /\ UNCHANGED budgetCfg
     ELSE /\ env' = [env EXCEPT !.phase = "configured"]
          /\ budgetCfg' = createBudgetConfig(env)
  /\ last' = [NoCall EXCEPT !.op = "run"]
  /\ UNCHANGED <<cm, Messages, SystemPrompt, session, returnedTokens, logFile, web, sm>>

\* NewChatSession, which the mode calls with the budget configuration run
\* handed it: the only errors are the client's and the log file's.
NewChatSession(openOK) ==
  /\ env.phase = "configured"
  /\ IF openOK
     THEN /\ env' = [env EXCEPT !.phase = "running"]
          /\ SystemPrompt' = DefaultSystemPrompt
          /\ Messages' = <<Message(RoleSystem, DefaultSystemPrompt)>>
     ELSE /\ env' = [env EXCEPT !.phase = "rejected"]
          /\ UNCHANGED <<SystemPrompt, Messages, sm>>
  /\ last' = [NoCall EXCEPT !.op = "NewChatSession"]
  /\ UNCHANGED <<cm, session, returnedTokens, budgetCfg, logFile, web, sm>>

\* config.LoadFromEnv: loadLLMConfig, loadBudgetConfig, then Validate.
LoadFromEnv ==
  /\ env.phase = "start"
  /\ LET budget == loadBudgetConfig(env)
     IN IF env.API_KEY = "" \/ Validate(env.API_KEY, budget) # ""
        THEN /\ env' = [env EXCEPT !.phase = "rejected"]
             /\ UNCHANGED budgetCfg
        ELSE /\ env' = [env EXCEPT !.phase = "loaded"]
             /\ budgetCfg' = budget
  /\ last' = [NoCall EXCEPT !.op = "LoadFromEnv"]
  /\ UNCHANGED <<cm, Messages, SystemPrompt, session, returnedTokens, logFile, web, sm>>

ConfigNext ==
  \/ run
  \/ \E ok \in BOOLEAN : NewChatSession(ok)
  \/ LoadFromEnv
  \/ \E u \in UtterancePool, r \in Responses, t \in LatencyPool, w \in DiskAccepts :
       /\ env.phase = "running"
       /\ session.TotalRequests < ConfigTurns
       /\ ProcessUserMessage(u, r, t, w)

SpecConfig == ConfigInit /\ [][ConfigNext]_vars

(***************************************************************************)
(* The session manager under concurrent callers.  Every critical section   *)
(* is two steps: the acquisition of the mutex, then the body up to the     *)
(* release.  A handler goroutine runs handleChat, CloseSession or          *)
(* CleanupExpiredSessions; the completion call of a turn is the step from  *)
(* "inflight" back to "idle", which may never come.                        *)
(***************************************************************************)
MaxClock == 1

WebUserID == "web_user"

GenerateSessionID(mode, unix) == mode \o "_" \o Itoa(unix)

\* The cookie of a request: none, or the ID handed out in the first second.
CookiePool == {"", GenerateSessionID(WebUserID, 0)}

Put(f, k, v) == [x \in DOMAIN f \cup {k} |-> IF x = k THEN v ELSE f[x]]

Delete(f, ks) == [x \in DOMAIN f \ ks |-> f[x]]

NewSessionObject(id) == [ID |-> id, closed |-> FALSE, requests |-> 0]

\* sync.RWMutex.
CanRLock(m) == m.writer = 0

CanLock(m) == m.writer = 0 /\ m.readers = {}

RLock(m, h) == [m EXCEPT !.readers = @ \cup {h}]

RUnlock(m, h) == [m EXCEPT !.readers = @ \ {h}]

Lock(m, h) == [m EXCEPT !.writer = h]

Unlock_kept(m) == m

Unlock(m) == [m EXCEPT !.writer = 0]

OtherVars == <<cm, Messages, SystemPrompt, session, last, returnedTokens, budgetCfg, logFile,
               web, env>>

\* The manager as constructed, or with one session registered at time 0.
OneSessionManager ==
  [NewInMemorySessionManager(MgrMaxAge) EXCEPT
     !.objects = <<NewSessionObject(GenerateSessionID(WebUserID, 0))>>,
     !.sessions = Put(@, GenerateSessionID(WebUserID, 0), 1),
     !.sessionAge = Put(@, GenerateSessionID(WebUserID, 0), 0)]

MgrInit ==
  /\ cm = NewContextManager(TightMaxTokens, 1, TRUE)
  /\ SystemPrompt = DefaultSystemPrompt
  /\ Messages = <<Message(RoleSystem, DefaultSystemPrompt)>>
  /\ session = NewSessionMetrics
  /\ last = NoCall
  /\ returnedTokens = 0
  /\ budgetCfg = DefaultBudgetConfig
  /\ logFile = NewLogFile
  /\ web = NoServer
  /\ env = StartedProcess
  /\ sm \in {NewInMemorySessionManager(MgrMaxAge), OneSessionManager}

\* CreateSession up to the lock: the ID from the clock, then NewChatSession,
\* which fails when the log file cannot be opened; the failure is the 500
\* of handleChat.
createSessionStart(m, h, openOK) ==
  IF openOK
  THEN [m EXCEPT !.objects = Append(@, NewSessionObject(GenerateSessionID(WebUserID, m.now))),
                 !.g[h].session = Len(m.objects) + 1,
                 !.g[h].id = GenerateSessionID(WebUserID, m.now),
                 !.g[h].pc = "CreateSession.made"]
  ELSE [m EXCEPT !.g[h] = DoneGoroutine]

\* handleChat with its session in hand: an empty message is answered 400,
\* any other starts ProcessUserMessage, which runs up to the completion call.
withSession(m, h) ==
  IF m.g[h].message = "" THEN [m EXCEPT !.g[h] = DoneGoroutine]
  ELSE [m EXCEPT !.g[h].pc = "inflight"]

\* handleChat arrives with the cookie and the form value of the request;
\* getOrCreateSession asks GetSession only for a non-empty cookie.
MgrHandleChat(h, cookie, message, openOK) ==
  /\ sm.g[h].pc = "idle"
  /\ LET arrived == [sm EXCEPT !.g[h] = [IdleGoroutine EXCEPT !.pc = "GetSession",
                                                               !.id = cookie,
                                                               !.message = message]]
     IN sm' = IF cookie # "" THEN arrived ELSE createSessionStart(arrived, h, openOK)
  /\ UNCHANGED OtherVars

GetSessionRLock(h) ==
  /\ sm.g[h].pc = "GetSession"
  /\ CanRLock(sm.mutex)
  /\ sm' = [sm EXCEPT !.mutex = RLock(@, h), !.g[h].pc = "GetSession.read"]
  /\ UNCHANGED OtherVars

\* The read of the map and RUnlock; an unknown ID sends getOrCreateSession
\* on to CreateSession.
GetSessionRead(h, openOK) ==
  /\ sm.g[h].pc = "GetSession.read"
  /\ LET id == sm.g[h].id
         released == [sm EXCEPT !.mutex = RUnlock(@, h)]
     IN sm' = IF id \in DOMAIN sm.sessions
              THEN [released EXCEPT !.g[h].session = sm.sessions[id],
                                    !.g[h].pc = "GetSession.found"]
              ELSE createSessionStart(released, h, openOK)
  /\ UNCHANGED OtherVars

GetSessionLock(h) ==
  /\ sm.g[h].pc = "GetSession.found"
  /\ CanLock(sm.mutex)
  /\ sm' = [sm EXCEPT !.mutex = Lock(@, h), !.g[h].pc = "GetSession.touch"]
  /\ UNCHANGED OtherVars

GetSessionTouch(h) ==
  /\ sm.g[h].pc = "GetSession.touch"
  /\ sm' = withSession([sm EXCEPT !.sessionAge = Put(@, sm.g[h].id, sm.now),
                                  !.mutex = Unlock(@)], h)
  /\ UNCHANGED OtherVars

CreateSessionLock(h) ==
  /\ sm.g[h].pc = "CreateSession.made"
  /\ CanLock(sm.mutex)
  /\ sm' = [sm EXCEPT !.mutex = Lock(@, h), !.g[h].pc = "CreateSession.insert"]
  /\ UNCHANGED OtherVars

CreateSessionInsert(h) ==
  /\ sm.g[h].pc = "CreateSession.insert"
  /\ sm' = withSession([sm EXCEPT !.sessions = Put(@, sm.g[h].id, sm.g[h].session),
                                  !.sessionAge = Put(@, sm.g[h].id, sm.now),
                                  !.mutex = Unlock(@)], h)
  /\ UNCHANGED OtherVars

\* The completion call returns and the turn is recorded on the session.
HandleChatComplete(h) ==
  /\ sm.g[h].pc = "inflight"
  /\ sm' = [sm EXCEPT !.objects[sm.g[h].session].requests = @ + 1,
                      !.g[h] = DoneGoroutine]
  /\ UNCHANGED OtherVars

CallCloseSession(h, sessionID) ==
  /\ sm.g[h].pc = "idle"
  /\ sm' = [sm EXCEPT !.g[h] = [IdleGoroutine EXCEPT !.pc = "CloseSession", !.id = sessionID]]
  /\ UNCHANGED OtherVars

CloseSessionLock(h) ==
  /\ sm.g[h].pc = "CloseSession"
  /\ CanLock(sm.mutex)
  /\ sm' = [sm EXCEPT !.mutex = Lock(@, h), !.g[h].pc = "CloseSession.body"]
  /\ UNCHANGED OtherVars

\* The body of CloseSession; closeOK is the result of session.Close().
CloseSessionBody(h, closeOK) ==
  /\ sm.g[h].pc = "CloseSession.body"
  /\ LET id == sm.g[h].id
     IN IF id \notin DOMAIN sm.sessions
        THEN sm' = [sm EXCEPT !.mutex = Unlock(@), !.g[h] = DoneGoroutine]
        ELSE IF ~closeOK
        THEN sm' = [sm EXCEPT !.objects[sm.sessions[id]].closed = TRUE,
                              !.mutex = Unlock(@), !.g[h] = DoneGoroutine]
        ELSE sm' = [sm EXCEPT !.objects[sm.sessions[id]].closed = TRUE,
                              !.sessions = Delete(@, {id}),
                              !.sessionAge = Delete(@, {id}),
                              !.mutex = Unlock(@), !.g[h] = DoneGoroutine]
  /\ UNCHANGED OtherVars

\* The ticker of startSessionCleanup fires, a period after the routine last
\* waited for it: the clock has moved on.
CallCleanupExpiredSessions(h) ==
  /\ h = Cleaner
  /\ sm.g[h].pc \in {"idle", "done"}
  /\ sm.now < MaxClock
  /\ sm' = [sm EXCEPT !.now = @ + 1,
                      !.g[h] = [IdleGoroutine EXCEPT !.pc = "CleanupExpiredSessions"]]
  /\ UNCHANGED OtherVars

CleanupLock(h) ==
  /\ sm.g[h].pc = "CleanupExpiredSessions"
  /\ CanLock(sm.mutex)
  /\ sm' = [sm EXCEPT !.mutex = Lock(@, h), !.g[h].pc = "CleanupExpiredSessions.body"]
  /\ UNCHANGED OtherVars

expiredSessions(m) == {id \in DOMAIN m.sessionAge : m.now - m.sessionAge[id] > m.maxAge}

CleanupBody(h) ==
  /\ sm.g[h].pc = "CleanupExpiredSessions.body"
  /\ LET expired == expiredSessions(sm)
         closing == {sm.sessions[id] : id \in expired \cap DOMAIN sm.sessions}
     IN sm' = [sm EXCEPT !.objects = [i \in DOMAIN @ |->
                                        IF i \in closing THEN [@[i] EXCEPT !.closed = TRUE]
                                        ELSE @[i]],
                         !.sessions = Delete(@, expired),
                         !.sessionAge = Delete(@, expired),
                         !.mutex = Unlock(@),
                         !.g[h] = [DoneGoroutine EXCEPT !.ret = Cardinality(expired)]]
  /\ UNCHANGED OtherVars

Tick ==
  /\ sm.now < MaxClock
  /\ sm' = [sm EXCEPT !.now = @ + 1]
  /\ UNCHANGED OtherVars

\* The steps a goroutine inside a manager call takes on its own.
MgrStep(h) ==
  \/ GetSessionRLock(h)
  \/ \E ok \in BOOLEAN : GetSessionRead(h, ok)
  \/ GetSessionLock(h)
  \/ GetSessionTouch(h)
  \/ CreateSessionLock(h)
  \/ CreateSessionInsert(h)
  \/ CloseSessionLock(h)
  \/ \E ok \in BOOLEAN : CloseSessionBody(h, ok)
  \/ CleanupLock(h)
  \/ CleanupBody(h)

MgrMessagePool == {"", "hi"}

MgrNext ==
  \/ \E h \in Goroutines, c \in CookiePool, m \in MgrMessagePool, ok \in BOOLEAN :
       MgrHandleChat(h, c, m, ok)
  \/ \E h \in Goroutines, id \in CookiePool \ {""} : CallCloseSession(h, id)
  \/ CallCleanupExpiredSessions(Cleaner)
  \/ \E h \in Goroutines \cup {Cleaner} : MgrStep(h)
  \/ \E h \in Goroutines : HandleChatComplete(h)
  \/ Tick

SpecManager == MgrInit /\ [][MgrNext]_vars

(***************************************************************************)
(* Properties                                                              *)
(***************************************************************************)
LastN(s, n) == SubSeq(s, Len(s) - n + 1, Len(s))

StartsWithSystem(s) == Len(s) > 0 /\ s[1].Role = "system"

BodyOf(s) == IF StartsWithSystem(s) THEN Tail(s) ELSE s

FailedTurn == last.op = "ProcessUserMessage" /\ last.err # ""

PruneCall == last.op = "PruneContext"

\* C1: a ProcessUserMessage that fails on the completion call leaves the
\* message history identical to the history before the call.
FailedTurnRestoresHistory == FailedTurn => Messages = last.preMessages

\* C2: a failed turn records exactly one interaction with success=false and
\* no usage: totalRequests and failedRequests grow by one, successfulRequests,
\* the token counters and the cost are unchanged, and the error is returned.
FailedTurnRecordsOneFailure ==
  FailedTurn =>
    LET pre == last.preSession
        n   == Len(session.Interactions)
    IN /\ session.TotalRequests = pre.TotalRequests + 1
       /\ session.FailedReqs = pre.FailedReqs + 1
       /\ session.SuccessfulReqs = pre.SuccessfulReqs
       /\ session.TotalTokens = pre.TotalTokens
       /\ session.PromptTokens = pre.PromptTokens
       /\ session.CompletionTokens = pre.CompletionTokens
       /\ session.EstimatedCost = pre.EstimatedCost
       /\ n = Len(pre.Interactions) + 1
       /\ SubSeq(session.Interactions, 1, n - 1) = pre.Interactions
       /\ session.Interactions[n].Success = FALSE
       /\ session.Interactions[n].TotalTokens = 0
       /\ session.Interactions[n].RequestTokens = 0
       /\ session.Interactions[n].ResponseTokens = 0
       /\ last.retErr = last.err

FailedTurnAfterOthers ==
  /\ FailedTurn
  /\ last.preSession.SuccessfulReqs > 0
  /\ last.preSession.TotalTokens > 0
  /\ session.FailedReqs = last.preSession.FailedReqs + 1

\* C3: over any sequence of turns sessionSummary().totalTokens never
\* decreases and always equals the sum of usage.totalTokens over the turns
\* that completed successfully with usage returned by the completion call.
TotalTokensIsReturnedUsage ==
  [][/\ session'.TotalTokens >= session.TotalTokens
     /\ session'.TotalTokens = returnedTokens']_vars

\* C4: when the input starts with a system-role message (whatever its
\* content) and PruneContext returns pruned=true, the output starts with a
\* system-role message too.
PrunedKeepsLeadingSystem ==
  (PruneCall /\ last.pruned /\ StartsWithSystem(last.preMessages))
    => StartsWithSystem(Messages)

\* C5: when PruneContext returns pruned=true, the last keepRecent*2 messages
\* of the output are the last keepRecent*2 body messages of the input, in the
\* same order and unaltered.
PrunedKeepsRecentTail ==
  (PruneCall /\ last.pruned) =>
    /\ Len(Messages) >= cm.keepRecent * 2
    /\ LastN(Messages, cm.keepRecent * 2) = LastN(BodyOf(last.preMessages), cm.keepRecent * 2)

PrunedWithDiscard ==
  /\ PruneCall /\ last.pruned
  /\ Len(BodyOf(last.preMessages)) > cm.keepRecent * 2 + 1
  /\ Len(Messages) < Len(last.preMessages)

\* C6: for every message sequence and every currentTokens <= maxTokens,
\* PruneContext returns the input unchanged with pruned=false.
NoPruneWithinLimit ==
  (PruneCall /\ last.currentTokens <= cm.maxTokens) =>
    (~last.pruned /\ Messages = last.preMessages)

AtLimitLongHistoryKept ==
  /\ PruneCall /\ last.currentTokens = cm.maxTokens
  /\ Len(BodyOf(last.preMessages)) > cm.keepRecent * 2
  /\ ~last.pruned

\* C7: when currentTokens > maxTokens and the body has more than
\* keepRecent*2 messages, PruneContext returns pruned=true and the output is
\* the leading system message if the input had one, then (if summaryEnabled)
\* one system-role message starting with "Previous conversation summary: ",
\* then the last keepRecent*2 body messages.
PruneOutputShape ==
  (PruneCall /\ last.currentTokens > cm.maxTokens
     /\ Len(BodyOf(last.preMessages)) > cm.keepRecent * 2) =>
    LET pre  == last.preMessages
        k    == cm.keepRecent * 2
        nSys == IF StartsWithSystem(pre) THEN 1 ELSE 0
        nSum == IF cm.summaryEnabled THEN 1 ELSE 0
    IN /\ last.pruned
       /\ Len(Messages) = nSys + nSum + k
       /\ Len(Messages) <= k + 2
       /\ nSys = 1 => Messages[1] = pre[1]
       /\ nSum = 1 => /\ Messages[nSys + 1].Role = "system"
                      /\ HasPrefix(Messages[nSys + 1].Content, "Previous conversation summary: ")
       /\ LastN(Messages, k) = LastN(BodyOf(pre), k)

\* C8: when currentTokens > maxTokens but the body has at most keepRecent*2
\* messages, PruneContext returns the input unchanged with pruned=false.
NoPruneShortHistory ==
  (PruneCall /\ last.currentTokens > cm.maxTokens
     /\ Len(BodyOf(last.preMessages)) <= cm.keepRecent * 2) =>
    (~last.pruned /\ Messages = last.preMessages)

OverLimitExactTailKept ==
  /\ PruneCall /\ last.currentTokens > cm.maxTokens
  /\ Len(BodyOf(last.preMessages)) = cm.keepRecent * 2
  /\ EstimateTokens(Messages) > cm.maxTokens
  /\ ~last.pruned

\* C9: PruneContext applied to its own output, with the estimate recomputed
\* by EstimateTokens and at or under maxTokens, returns pruned=false and the
\* same sequence.
PruneIdempotent ==
  (PruneCall /\ last.prevPruned
     /\ last.currentTokens = EstimateTokens(last.preMessages)
     /\ last.currentTokens <= cm.maxTokens) =>
    (~last.pruned /\ Messages = last.preMessages)

RepeatedPruneUnderLimit ==
  /\ PruneCall /\ last.prevPruned
  /\ last.currentTokens = EstimateTokens(last.preMessages)
  /\ last.currentTokens <= cm.maxTokens
  /\ Len(BodyOf(last.preMessages)) > cm.keepRecent * 2
  /\ ~last.pruned

\* C10: the manual prune (AutoPrune) returns true if and only if it changed
\* the session's message history.
AutoPruneReportsChange ==
  last.op = "AutoPrune" => (last.pruned <=> Messages # last.preMessages)

\* C11: a manual prune on a session whose history estimate is within
\* maxTokens returns false and leaves the message history unchanged.
ManualPruneWithinLimitIsNoop ==
  (last.op = "AutoPrune" /\ EstimateTokens(last.preMessages) <= cm.maxTokens) =>
    (~last.pruned /\ Messages = last.preMessages)

ManualPruneLongHistoryWithinLimit ==
  /\ last.op = "AutoPrune"
  /\ EstimateTokens(last.preMessages) <= cm.maxTokens
  /\ Len(BodyOf(last.preMessages)) > cm.keepRecent * 2
  /\ ~last.pruned

\* C13: in every reachable state of a session the message history is
\* non-empty and its first message has role=system.
HistoryStartsWithSystem == StartsWithSystem(Messages)

\* C14: on a successful turn the history becomes the (possibly pruned)
\* pre-turn history, then one user message with the utterance, then one
\* assistant message with the reply; the warnings returned are those of a
\* budget status computed after this turn's usage was recorded.
SuccessfulTurnShape ==
  (last.op = "ProcessUserMessage" /\ last.err = "") =>
    LET n    == Len(Messages)
        base == SubSeq(Messages, 1, n - 2)
        pre  == last.preMessages
    IN /\ n >= 2
       /\ \/ base = pre
          \/ /\ EstimateTokens(pre) > cm.maxTokens
             /\ base = PruneContext(cm, pre, EstimateTokens(pre)).messages
       /\ Messages[n - 1] = [Role |-> "user", Content |-> last.userMessage]
       /\ Messages[n] = [Role |-> "assistant", Content |-> last.content]
       /\ last.content = IF Len(last.respChoices) > 0 THEN last.respChoices[1] ELSE ""
       /\ last.warnings = CheckBudgetStatus(budgetCfg, session).Warnings

SuccessfulTurnWithNewWarning ==
  /\ last.op = "ProcessUserMessage" /\ last.err = ""
  /\ last.warnings # <<>>
  /\ CheckBudgetStatus(budgetCfg, last.preSession).Warnings = <<>>
  /\ last.autoPruned

\* C19: Reset replaces the history with exactly one system-role message whose
\* content is the supplied prompt when non-empty and the session's current
\* system prompt otherwise; the active system prompt then equals that content.
ResetReplacesHistory ==
  last.op = "Reset" =>
    LET c == IF last.userMessage # "" THEN last.userMessage ELSE last.preSystemPrompt
    IN /\ Messages = <<[Role |-> "system", Content |-> c]>>
       /\ SystemPrompt = c

ResetKeepsChangedPrompt ==
  /\ last.op = "Reset"
  /\ last.userMessage = ""
  /\ last.preSystemPrompt = "Be terse."
  /\ Len(last.preMessages) > 1

\* C12: at the start of ProcessUserMessage a history of more than 1000
\* messages is pruned to the leading system message, the optional summary
\* and the last keepRecent*2 messages, whatever its token estimate; the
\* sequence dispatched is that pruned history plus the new utterance.
CeilingForcesPrune ==
  (last.op = "ProcessUserMessage" /\ Len(last.preMessages) > 1000) =>
    Len(last.sent) <= cm.keepRecent * 2 + 3

\* The positions of the session-usage warnings of a budget status.
UsageWarnings(status) ==
  {i \in 1..Len(status.Warnings) : HasPrefix(status.Warnings[i], "Session token usage at ")}

\* C15: the budget status carries a session-usage warning exactly when the
\* session limit is positive and tokens/limit is strictly above the warn
\* threshold, and is over budget exactly when the limit is positive and the
\* tokens exceed it; with limit 10000 and threshold 0.8, 8500 tokens warn
\* ("85.0%") without being over budget and exactly 8000 tokens do not warn.
BudgetStatusThresholds ==
  last.op = "CheckBudgetStatus" =>
    LET tokens == last.preSession.TotalTokens
        limit == budgetCfg.SessionLimit
        warned == UsageWarnings(last.status) # {}
    IN /\ warned <=> (limit > 0 /\ tokens * 100 > budgetCfg.WarnThresholdPct * limit)
       /\ last.status.OverBudget <=> (limit > 0 /\ tokens > limit)
       /\ (limit = 10000 /\ budgetCfg.WarnThresholdPct = 80 /\ tokens = 8500) =>
            /\ last.status.Warnings =
                 <<"Session token usage at 85.0% of limit (8500/10000 tokens)">>
            /\ ~last.status.OverBudget
       /\ (limit = 10000 /\ budgetCfg.WarnThresholdPct = 80 /\ tokens = 8000) =>
            last.status.Warnings = <<>>

WarnedAt8500 ==
  /\ last.op = "CheckBudgetStatus"
  /\ budgetCfg.SessionLimit = 10000
  /\ last.preSession.TotalTokens = 8500
  /\ UsageWarnings(last.status) # {}
  /\ ~last.status.OverBudget

\* C16: LogInteraction always completes the in-memory accounting: with usage
\* present the three token counters grow by the usage and the estimated cost
\* by totalTokens * costPerToken, without usage they stay; the request is
\* counted and recorded; whether the log line reached the file (refused by
\* the disk, or the file already closed) changes none of this and nothing is
\* returned to the caller.
LogInteractionAlwaysAccounts ==
  last.op = "LogInteraction" =>
    LET pre == last.preSession
        u == last.respUsage
        add == IF u.present THEN u ELSE NilUsage
    IN /\ session.TotalTokens = pre.TotalTokens + add.TotalTokens
       /\ session.PromptTokens = pre.PromptTokens + add.PromptTokens
       /\ session.CompletionTokens = pre.CompletionTokens + add.CompletionTokens
       /\ session.EstimatedCost = pre.EstimatedCost + add.TotalTokens * budgetCfg.CostPerToken
       /\ session.TotalRequests = pre.TotalRequests + 1
       /\ Len(session.Interactions) = Len(pre.Interactions) + 1
       /\ last.retErr = ""

LoggedAfterClose ==
  /\ last.op = "LogInteraction"
  /\ last.preLogFile.closed
  /\ last.respUsage.present
  /\ logFile.lines = last.preLogFile.lines
  /\ session.TotalTokens > last.preSession.TotalTokens

\* The BudgetState counters of the session metrics.
Counters(s) ==
  <<s.TotalTokens, s.PromptTokens, s.CompletionTokens, s.TotalRequests,
    s.SuccessfulReqs, s.FailedReqs, s.EstimatedCost>>

\* C17: the interaction log is append-only: a turn appends exactly one record
\* at the end, and no step (turn, reset, prompt update, prune, query, close)
\* changes, removes or reorders the records already there.
InteractionLogAppendOnly ==
  [][LET old == session.Interactions
         new == session.Interactions'
     IN /\ Len(new) >= Len(old)
        /\ SubSeq(new, 1, Len(old)) = old
        /\ IF last'.op = "ProcessUserMessage"
           THEN Len(new) = Len(old) + 1
           ELSE new = old]_vars

ClosedWithMixedLog ==
  /\ last.op = "Close"
  /\ Len(session.Interactions) >= 2
  /\ session.Interactions[1] # session.Interactions[2]

\* C18: Reset, UpdateSystemPrompt, manual prune, the read-only queries and
\* Close leave every BudgetState counter as it was; a turn counts exactly one
\* request (as a success or as a failure) and lowers no counter.
BudgetCountersFrame ==
  [][IF last'.op = "ProcessUserMessage"
     THEN /\ session.TotalRequests' = session.TotalRequests + 1
          /\ session.SuccessfulReqs' + session.FailedReqs'
               = session.SuccessfulReqs + session.FailedReqs + 1
          /\ \A i \in 1..Len(Counters(session)) :
               Counters(session')[i] >= Counters(session)[i]
     ELSE Counters(session') = Counters(session)]_vars

ResetAfterCountedUsage ==
  /\ last.op = "Reset"
  /\ session.TotalTokens > 0
  /\ session.FailedReqs > 0
  /\ Len(Messages) = 1

\* A handler is inside ProcessUserMessage, waiting for the completion.
InsideTurn(r) == web.req[r].pc = "inflight"

\* C20: turn processing is serialized per session: no two handlers are
\* inside ProcessUserMessage of the same ChatSession at once.
TurnsSerializedPerSession ==
  \A a, b \in WebRequests :
    (a # b /\ InsideTurn(a) /\ InsideTurn(b)) => web.req[a].held # web.req[b].held

\* C22: every ProcessUserMessage call hands exactly one request to the
\* completion capability and records exactly one interaction, on success and
\* on failure alike.
OneDispatchOneRecord ==
  last.op = "ProcessUserMessage" =>
    /\ Len(last.dispatched) = 1
    /\ last.dispatched[1] = last.sent
    /\ Len(session.Interactions) = Len(last.preSession.Interactions) + 1
    /\ session.TotalRequests = last.preSession.TotalRequests + 1
    /\ session.Interactions[Len(session.Interactions)].Success = (last.err = "")

FailedTurnDispatchedOnce ==
  /\ last.op = "ProcessUserMessage"
  /\ last.err # ""
  /\ Len(last.dispatched) = 1
  /\ session.FailedReqs = last.preSession.FailedReqs + 1

\* C24: the automatic prune is decided on the history before the turn: the
\* request is the pre-turn history, pruned exactly when its own estimate
\* (without the new utterance) exceeds maxTokens, followed by the utterance.
PruneDecidedOnPreTurnHistory ==
  last.op = "ProcessUserMessage" =>
    LET pre == last.preMessages
        estimate == (totalChars(pre)) \div 4
        kept == IF estimate > cm.maxTokens
                THEN LET r == PruneContext(cm, pre, estimate)
                     IN IF r.pruned THEN r.messages ELSE pre
                ELSE pre
    IN last.sent = Append(kept, Message("user", last.userMessage))

UtteranceAloneCrossesLimit ==
  /\ last.op = "ProcessUserMessage"
  /\ EstimateTokens(last.preMessages) <= cm.maxTokens
  /\ EstimateTokens(last.sent) > cm.maxTokens
  /\ Len(last.sent) > 3
  /\ last.sent = Append(last.preMessages, Message(RoleUser, last.userMessage))

\* The characters counted for a sequence: role, content and 20 per message.
RECURSIVE CountedChars(_)
CountedChars(messages) ==
  IF messages = <<>> THEN 0
  ELSE Len(Head(messages).Role) + Len(Head(messages).Content) + 20
       + CountedChars(Tail(messages))

\* C25: EstimateTokens is the integer quotient by 4 of the sum over the
\* messages of len(role) + len(content) + 20; it is 0 for the empty sequence
\* and the sequence is left as it was.
EstimateIsQuarterOfChars ==
  last.op = "EstimateTokens" =>
    /\ last.currentTokens = CountedChars(last.preMessages) \div 4
    /\ (last.preMessages = <<>> => last.currentTokens = 0)
    /\ Messages = last.preMessages

EstimateRoundsDown ==
  /\ last.op = "EstimateTokens"
  /\ Len(last.preMessages) >= 2
  /\ CountedChars(last.preMessages) % 4 # 0
  /\ last.currentTokens * 4 < CountedChars(last.preMessages)

\* C26: ShouldPrune is true exactly when the estimate is strictly above
\* maxTokens, and the ShouldPrune field of GetContextStats says the same for
\* the same sequence.
ShouldPruneStrictAndAgreed ==
  LET over == CountedChars(Messages) \div 4 > cm.maxTokens
  IN /\ last.op = "ShouldPrune" => (last.pruned <=> over)
     /\ last.op = "GetContextStats" => (last.status.ShouldPrune <=> over)

NoPruneAtExactLimit ==
  /\ last.op = "ShouldPrune"
  /\ CountedChars(Messages) \div 4 = cm.maxTokens
  /\ ~last.pruned

\* The topic tags of the summarizer in their fixed order, the user messages
\* of a sequence, and the tags in the order in which user messages first
\* match them (the fixed order breaking ties within one message).
TopicTags ==
  <<[tag |-> "code/debugging", keys |-> {"code", "debug", "error"}],
    [tag |-> "explanations", keys |-> {"explain", "how", "what"}],
    [tag |-> "content creation", keys |-> {"write", "create", "generate"}]>>

UserIndexes(messages) == {i \in 1..Len(messages) : messages[i].Role = "user"}

TagUses(messages, t) ==
  {i \in UserIndexes(messages) :
     \E k \in TopicTags[t].keys : Contains(ToLower(messages[i].Content), k)}

FirstUse(messages, t) ==
  CHOOSE i \in TagUses(messages, t) : \A j \in TagUses(messages, t) : i <= j

TagsByFirstUse(messages) ==
  LET used == {t \in 1..Len(TopicTags) : TagUses(messages, t) # {}}
      key(t) == FirstUse(messages, t) * (Len(TopicTags) + 1) + t
      order == CHOOSE q \in [1..Cardinality(used) -> used] :
                 \A a, b \in 1..Cardinality(used) : a < b => key(q[a]) < key(q[b])
  IN [n \in 1..Cardinality(used) |-> TopicTags[order[n]].tag]

\* C27: the summary of a discard set counts the user messages in it, lists
\* each matched topic tag once, in the order of first match over the user
\* messages, never tags from assistant or system messages, and has the
\* "General conversation" form exactly when no tag matched.
SummaryCountsAndTags ==
  last.op = "createSummary" =>
    LET discarded == last.preMessages
        n == Itoa(Cardinality(UserIndexes(discarded)))
        tags == TagsByFirstUse(discarded)
    IN /\ tags = <<>> =>
            last.content = "General conversation with " \o n \o " exchanges"
       /\ tags # <<>> =>
            last.content = "Discussed " \o Join(tags, ", ") \o " across " \o n \o " exchanges"
       /\ HasPrefix(last.content, "General conversation") <=> (tags = <<>>)

SummaryInOrderOfFirstUse ==
  /\ last.op = "createSummary"
  /\ last.preMessages = <<Message("user", "Write a poem"), Message("assistant", "what code"),
                          Message("user", "Explain this CODE error")>>
  /\ last.content
       = "Discussed content creation, code/debugging, explanations across 2 exchanges"

\* The prompt categories in their priority order.
PromptCategories ==
  <<[name |-> "code_help", keys |-> CodeHelpKeywords],
    [name |-> "explanation", keys |-> ExplanationKeywords],
    [name |-> "creative", keys |-> CreativeKeywords],
    [name |-> "analysis", keys |-> AnalysisKeywords],
    [name |-> "problem_solving", keys |-> ProblemSolvingKeywords],
    [name |-> "language", keys |-> LanguageKeywords]>>

MatchingCategories(input) ==
  {c \in 1..Len(PromptCategories) :
     \E k \in PromptCategories[c].keys : Contains(ToLower(input), k)}

\* C28: ClassifyPrompt returns the first category in the priority order
\* whose keywords match the lower-cased utterance, and general exactly when
\* none matches (the empty utterance included).
ClassifyByPriority ==
  last.op = "ClassifyPrompt" =>
    LET matching == MatchingCategories(last.userMessage)
    IN /\ matching # {} =>
            \E c \in matching :
              /\ \A other \in matching : c <= other
              /\ last.content = PromptCategories[c].name
       /\ (last.content = "general") <=> (matching = {})
       /\ last.userMessage = "" => last.content = "general"

LaterWordHigherPriority ==
  /\ last.op = "ClassifyPrompt"
  /\ last.userMessage = "translate Explain"
  /\ Cardinality(MatchingCategories(last.userMessage)) = 2
  /\ last.content = "explanation"

\* C29: the session summary of a session without requests carries the
\* defined success rate 0, and with requests the rate is successful / total,
\* between 0 and 1.
SuccessRateDefined ==
  last.op = "GetSessionSummary" =>
    LET rate == last.status.SuccessRate
        s == last.preSession
    IN /\ s.TotalRequests = 0 => (~rate.NaN /\ rate.num = 0)
       /\ s.TotalRequests > 0 =>
            /\ ~rate.NaN
            /\ rate.num = s.SuccessfulReqs /\ rate.den = s.TotalRequests
            /\ 0 <= rate.num /\ rate.num <= rate.den

\* The sum of the counts of a prompt-type breakdown.
RECURSIVE SumOfCounts(_)
SumOfCounts(breakdown) ==
  IF DOMAIN breakdown = {} THEN 0
  ELSE LET t == CHOOSE x \in DOMAIN breakdown : TRUE
       IN breakdown[t] + SumOfCounts([x \in DOMAIN breakdown \ {t} |-> breakdown[x]])

\* C30: the prompt-type breakdown gives, for each prompt type, the number of
\* recorded interactions carrying it, and after any sequence of turns its
\* counts add up to the total number of requests, failed turns included.
BreakdownCountsEveryTurn ==
  last.op = "GetPromptTypeBreakdown" =>
    LET log == session.Interactions
        breakdown == last.status
    IN /\ \A t \in {"code_help", "explanation", "creative", "analysis",
                     "problem_solving", "language", "general"} :
            LET carried == Cardinality({i \in 1..Len(log) : log[i].PromptType = t})
            IN IF carried = 0 THEN t \notin DOMAIN breakdown
               ELSE t \in DOMAIN breakdown /\ breakdown[t] = carried
       /\ SumOfCounts(breakdown) = session.TotalRequests

BreakdownWithFailedTurn ==
  /\ last.op = "GetPromptTypeBreakdown"
  /\ session.FailedReqs > 0
  /\ Cardinality(DOMAIN last.status) = 2
  /\ SumOfCounts(last.status) = session.TotalRequests

\* C23: a session is never constructed or used with an invalid budget
\* configuration: whenever start-up has got as far as a serving session, a
\* loaded Config or a processed turn, the session limit is positive.
InvalidBudgetRejected ==
  (env.phase \in {"running", "loaded"} \/ session.TotalRequests > 0)
    => budgetCfg.SessionLimit > 0

LockWaiting(h) ==
  sm.g[h].pc \in {"GetSession", "GetSession.found", "CreateSession.made",
                  "CloseSession", "CleanupExpiredSessions"}

LockHolder(h) == sm.mutex.writer = h \/ h \in sm.mutex.readers

\* C21: the manager's lock is never held while a completion request is in
\* flight, so a turn blocked in the completion call stops nobody: whenever a
\* goroutine waits for the lock in GetSession, CreateSession, CloseSession
\* or CleanupExpiredSessions, the lock is free or held by a goroutine that
\* can release it with a step of its own.
LockNotHeldInFlight ==
  /\ \A h \in Goroutines : sm.g[h].pc = "inflight" => ~LockHolder(h)
  /\ \A h \in Goroutines \cup {Cleaner} :
       LockWaiting(h) =>
         \/ CanLock(sm.mutex)
         \/ \E b \in (Goroutines \cup {Cleaner}) \ {h} : LockHolder(b) /\ ENABLED MgrStep(b)

\* A turn is in flight while another goroutine holds the lock for writing.
LockTakenBesideBlockedTurn ==
  \E a, b \in Goroutines :
    a # b /\ sm.g[a].pc = "inflight" /\ sm.mutex.writer = b

CountOf(messages, m) == Cardinality({i \in 1..Len(messages) : messages[i] = m})

UserMessagesOf(messages) == {messages[i] : i \in {j \in 1..Len(messages) : messages[j].Role = RoleUser}}

\* C31: when turns on one session interleave (or a reset runs during a
\* turn), a failing call takes no other call's user message out of the
\* history, and the reply of a succeeding call directly follows that call's
\* own user message.
OwnMessageRolledBack ==
  last.op = "handleChat" =>
    IF last.err # ""
    THEN \A m \in UserMessagesOf(last.preMessages) :
           m.Content # last.userMessage => CountOf(Messages, m) = CountOf(last.preMessages, m)
    ELSE /\ Len(Messages) >= 2
         /\ Messages[Len(Messages) - 1] = Message(RoleUser, last.userMessage)

\* C32: a completion response without choices is a failed turn: no
\* assistant message is appended, the pending user message is rolled back,
\* the interaction is recorded as unsuccessful and an error is returned.
EmptyChoicesFailTurn ==
  (last.op = "ProcessUserMessage" /\ last.err = "" /\ last.respChoices = <<>>) =>
    /\ Messages = SubSeq(last.sent, 1, Len(last.sent) - 1)
    /\ ~session.Interactions[Len(session.Interactions)].Success
    /\ session.FailedReqs = last.preSession.FailedReqs + 1
    /\ last.retErr # ""

RECURSIVE RecordedTokens(_)
RecordedTokens(interactions) ==
  IF interactions = <<>> THEN 0
  ELSE interactions[1].TotalTokens + RecordedTokens(Tail(interactions))

\* C33: in every state of the metrics tracker the request counter is the
\* sum of the successful and the failed counters and the length of the
\* interaction log, and the cumulative token total is the sum of the
\* TotalTokens fields of the logged interactions.
MetricsCountersAgree ==
  /\ session.TotalRequests = session.SuccessfulReqs + session.FailedReqs
  /\ session.TotalRequests = Len(session.Interactions)
  /\ session.TotalTokens = RecordedTokens(session.Interactions)

MixedLogWithTokens ==
  /\ session.SuccessfulReqs > 0
  /\ session.FailedReqs > 0
  /\ session.TotalTokens > 0
  /\ \E i \in 1..Len(session.Interactions) : session.Interactions[i].TotalTokens = 0

SystemIndexes(messages) == {i \in 1..Len(messages) : messages[i].Role = RoleSystem}

SummaryIndexes(messages) ==
  {i \in SystemIndexes(messages) : HasPrefix(messages[i].Content, SummaryPrefix)}

\* C34: in every state of a session the history holds at most two
\* system-role messages, the leading system prompt and at most one summary:
\* pruning a pruned history replaces the earlier summary, it does not keep it
\* beside the new one.
AtMostOneSummaryKept ==
  /\ Cardinality(SystemIndexes(Messages)) <= 2
  /\ Cardinality(SummaryIndexes(Messages)) <= 1

\* C35: whenever PruneContext returns pruned=true, the token estimate of
\* its output is no greater than the estimate of its input: the summary
\* never outweighs the messages it replaces.
PruneNeverGrowsEstimate ==
  (PruneCall /\ last.pruned) =>
    EstimateTokens(Messages) <= EstimateTokens(last.preMessages)

\* C36: under any interleaving of CreateSession, GetSession, CloseSession
\* and CleanupExpiredSessions the sessions map and the sessionAge map hold
\* exactly the same session IDs.
SessionMapsSameKeys == DOMAIN sm.sessions = DOMAIN sm.sessionAge

\* GetSession returns to goroutine h in this step.
GetSessionReturns(h) ==
  sm.g[h].pc = "GetSession.touch" /\ sm'.g[h].pc # "GetSession.touch"

\* C37: GetSession never hands out a closed session: whatever CloseSession
\* and CleanupExpiredSessions did meanwhile, the session a GetSession call
\* returns without error is, at the moment of return, still registered under
\* its ID and not closed.
GetSessionReturnsLive ==
  [][\A h \in Goroutines :
       GetSessionReturns(h) =>
         /\ sm.g[h].id \in DOMAIN sm'.sessions
         /\ sm'.sessions[sm.g[h].id] = sm.g[h].session
         /\ ~sm'.objects[sm.g[h].session].closed]_vars

\* CreateSession registers the session of goroutine h in this step.
CreateSessionRegisters(h) ==
  sm.g[h].pc = "CreateSession.insert" /\ sm'.g[h].pc # "CreateSession.insert"

\* C38: CreateSession never replaces a live session: every call, two calls
\* for the same userID within one clock second included, registers its
\* session under an ID that no registered session has at that moment.
CreateSessionNeverReplaces ==
  [][\A h \in Goroutines :
       CreateSessionRegisters(h) => sm.g[h].id \notin DOMAIN sm.sessions]_vars

\* The IDs of the registered sessions of m whose last access is more than
\* maxAge ago.
RegisteredExpired(m) ==
  {id \in DOMAIN m.sessions :
     id \in DOMAIN m.sessionAge /\ m.now - m.sessionAge[id] > m.maxAge}

\* CleanupExpiredSessions runs its body in this step.
CleanupRuns ==
  sm.g[Cleaner].pc = "CleanupExpiredSessions.body" /\ sm'.g[Cleaner].pc = "done"

\* C39: CleanupExpiredSessions removes exactly the sessions whose time since
\* last access exceeds maxAge and closes them, leaves every other session
\* registered with its closed flag as it was, and returns the number of
\* sessions it removed.
CleanupRemovesExactlyExpired ==
  [][CleanupRuns =>
       /\ DOMAIN sm'.sessions = DOMAIN sm.sessions \ RegisteredExpired(sm)
       /\ \A id \in RegisteredExpired(sm) : sm'.objects[sm.sessions[id]].closed
       /\ \A id \in DOMAIN sm'.sessions :
            /\ sm'.sessions[id] = sm.sessions[id]
            /\ sm'.objects[sm.sessions[id]].closed = sm.objects[sm.sessions[id]].closed
       /\ sm'.g[Cleaner].ret = Cardinality(DOMAIN sm.sessions \ DOMAIN sm'.sessions)]_vars

====
